---- MODULE Spec2Model ----
(***************************************************************************)
(* Order placement engine of the A2SV e-commerce API.                      *)
(*                                                                         *)
(* The model follows OrderService.placeOrder (the startTransaction         *)
(* revision), ProductService.updateProduct, the transaction helpers of     *)
(* BaseRepository, the Order schema's pre-save hook and the order lookup   *)
(* path.  The document store is modelled as MongoDB multi-document         *)
(* transactions: a session reads from the snapshot taken at its first      *)
(* operation plus its own writes, a write to a document that another       *)
(* open transaction has written, or that was committed after the           *)
(* snapshot, fails with a write conflict, and commit installs the writes.  *)
(* Money is counted in thousandths of a currency unit (mills).             *)
(* The fields of every record, and the strings of every set, are written   *)
(* in the order TLC sorts them into, so that a value shared by TLC's        *)
(* workers is never rearranged while another worker reads it.               *)
(***************************************************************************)
EXTENDS Integers, Sequences, FiniteSets, TLC

VARIABLES
    products,       \* committed product documents, by product id
    orders,         \* committed order documents, by order id
    session,        \* ClientSession of every call
    pc,             \* position of every call
    req,            \* arguments of every call
    idx,            \* index of the item the for-loop is processing
    item,           \* the loop variable `item`
    product,        \* the local `product` (updateProduct: `oldProduct`)
    orderProducts,  \* the local `orderProducts`
    resp,           \* what the call returned
    reserved,       \* history: line items reserved when placeOrder returned;
                    \* units an updateStock call has taken from the stock
    attempts        \* history: sessions the call has opened

vars == <<products, orders, session, pc, req, idx, item, product, orderProducts,
          resp, reserved, attempts>>

----------------------------------------------------------------------------
(* Bounds *)

MaxStock == 2
MaxQty == 2
MaxItems == 2

(* HttpStatus *)
CREATED == 201
BAD_REQUEST == 400
UNAUTHORIZED == 401
NOT_FOUND == 404
INTERNAL_SERVER_ERROR == 500

Callers == {"c1", "c2"}
UserOf == [c \in Callers |-> IF c = "c1" THEN "u1" ELSE "u2"]
Admins == {"a1"}
\* the request served by the order lookup endpoints
Readers == {"r1"}
Calls == Callers \cup Admins \cup Readers

ExistingProducts == {"p1", "p2"}
UnknownProduct == "p9"
ProductIds == ExistingProducts \cup {UnknownProduct}

\* the `price` field a client puts on its items: c1 forges one, c2 sends
\* none (0 stands for no such field)
ForgedPrice == 10
ClientPrice == [c \in Callers |-> IF c = "c1" THEN ForgedPrice ELSE 0]

Empty == << >>
\* stock and quantity are JavaScript numbers: `stock` and `quantity` hold the
\* whole part, `half` says that one half is to be added
NoDoc == [name |-> "", price |-> 0, stock |-> 0, half |-> FALSE, status |-> "",
          ver |-> 0]
NoResp == [statusCode |-> 0, message |-> ""]

InitProducts ==
    [p \in ExistingProducts |->
        IF p = "p1"
        THEN [name |-> "Widget", price |-> 1250, stock |-> MaxStock, half |-> FALSE,
              status |-> "active", ver |-> 0]
        ELSE [name |-> "Gadget", price |-> 2990, stock |-> 1, half |-> FALSE,
              status |-> "active", ver |-> 0]]

\* the items of orderData.products as they reach the service
Items == [half : {FALSE}, productId : ProductIds, quantity : 1 .. MaxQty]
NoItem == [price |-> 0, half |-> FALSE, productId |-> "", quantity |-> 0]

\* a number in half units
Halves(whole, half) == 2 * whole + (IF half THEN 1 ELSE 0)

\* orderData.products.length
Lengths == 0 .. MaxItems

Extend(f, k, v) == [x \in DOMAIN f \cup {k} |-> IF x = k THEN v ELSE f[x]]

----------------------------------------------------------------------------
(* ClientSession and the transactional store *)

NoSession ==
    [txn |-> "none", ended |-> FALSE, hasSnap |-> FALSE,
     snapP |-> Empty, snapO |-> Empty, wP |-> Empty, wO |-> Empty]

\* BaseRepository.startTransaction: startSession() then session.startTransaction()
startTransaction == [NoSession EXCEPT !.txn = "active"]

\* the first operation under a session fixes its read snapshot
WithSnapshot(s) ==
    IF s.hasSnap THEN s
    ELSE [s EXCEPT !.hasSnap = TRUE, !.snapP = products, !.snapO = orders]

\* the products a session sees: its snapshot overlaid with its own writes
ViewP(s) ==
    [p \in DOMAIN s.snapP \cup DOMAIN s.wP |->
        IF p \in DOMAIN s.wP THEN s.wP[p] ELSE s.snapP[p]]

\* the orders a session sees
ViewO(s) ==
    [o \in DOMAIN s.snapO \cup DOMAIN s.wO |->
        IF o \in DOMAIN s.wO THEN s.wO[o] ELSE s.snapO[o]]

\* session.abortTransaction(): discards the writes; the driver raises when no
\* transaction is in progress (already committed, aborted or ended)
abortTransaction(s) ==
    IF s.txn = "active" /\ ~s.ended
    THEN [s |-> [s EXCEPT !.txn = "aborted", !.hasSnap = FALSE, !.snapP = Empty,
                          !.snapO = Empty, !.wP = Empty, !.wO = Empty],
          threw |-> FALSE]
    ELSE [s |-> s, threw |-> TRUE]

\* session.endSession(): an in-progress transaction is aborted with it
endSession(s) ==
    [s EXCEPT !.ended = TRUE,
              !.txn = IF s.txn = "active" THEN "aborted" ELSE s.txn,
              !.hasSnap = FALSE, !.snapP = Empty, !.snapO = Empty,
              !.wP = Empty, !.wO = Empty]

\* `await session.abortTransaction(); await session.endSession();` as written
\* before every throw and early return of placeOrder
AbortAndEnd(s) ==
    LET a == abortTransaction(s)
    IN IF a.threw THEN [s |-> a.s, threw |-> TRUE]
       ELSE [s |-> endSession(a.s), threw |-> FALSE]

\* the catch block of placeOrder: try { abort; end } catch { /* ignored */ }
CatchAbort(s) == AbortAndEnd(s).s

\* a store that only sees the transactions still open: a write over a
\* document committed after the writer's snapshot goes through
WriteConflictOpenOnly(c, id) ==
    \E t \in DOMAIN session :
        t # c /\ session[t].txn = "active" /\ id \in DOMAIN session[t].wP

\* a write to product `id` under the session of call c conflicts when the
\* document changed after c's snapshot or another open transaction wrote it
WriteConflictP(c, id) ==
    \/ id \notin DOMAIN products
    \/ products[id].ver # WithSnapshot(session[c]).snapP[id].ver
    \/ \E t \in DOMAIN session :
          t # c /\ session[t].txn = "active" /\ id \in DOMAIN session[t].wP

----------------------------------------------------------------------------
(* Repository helpers *)

MalformedIds == {"invalid-id"}

\* Types.ObjectId.isValid
ValidObjectId(id) == id \notin MalformedIds

Result(ok, code, doc) == [statusCode |-> code, success |-> ok, data |-> doc]

\* a read that returns the document as it was when the transaction began,
\* without the transaction's own writes
findByIdFromSnapshot(s, id, dbError) ==
    IF ~ValidObjectId(id) THEN Result(FALSE, BAD_REQUEST, NoDoc)
    ELSE IF dbError THEN Result(FALSE, INTERNAL_SERVER_ERROR, NoDoc)
    ELSE IF id \notin DOMAIN s.snapP THEN Result(FALSE, NOT_FOUND, NoDoc)
    ELSE Result(TRUE, 200, s.snapP[id])

\* BaseRepository.findByIdWithTransaction; s already holds its snapshot
findByIdWithTransaction(s, id, dbError) ==
    IF ~ValidObjectId(id) THEN Result(FALSE, BAD_REQUEST, NoDoc)
    ELSE IF dbError THEN Result(FALSE, INTERNAL_SERVER_ERROR, NoDoc)
    ELSE IF id \notin DOMAIN ViewP(s) THEN Result(FALSE, NOT_FOUND, NoDoc)
    ELSE Result(TRUE, 200, ViewP(s)[id])

\* BaseRepository.updateByIdWithTransaction: findByIdAndUpdate under the
\* session; a write conflict or any other driver error is caught and becomes
\* a 500 result
Patch(doc, data) == [f \in DOMAIN doc |-> IF f \in DOMAIN data THEN data[f] ELSE doc[f]]

updateByIdWithTransaction(c, id, data, dbError) ==
    LET s == WithSnapshot(session[c])
    IN IF ~ValidObjectId(id) THEN Result(FALSE, BAD_REQUEST, NoDoc)
       ELSE IF id \notin DOMAIN ViewP(s) THEN Result(FALSE, NOT_FOUND, NoDoc)
       ELSE IF dbError \/ WriteConflictP(c, id)
            THEN Result(FALSE, INTERNAL_SERVER_ERROR, NoDoc)
       ELSE Result(TRUE, 200, Patch(ViewP(s)[id], data))

----------------------------------------------------------------------------
(* Order schema *)

RECURSIVE SumLines(_)
\* products.reduce((sum, item) => sum + item.price * item.quantity, 0)
SumLines(lines) ==
    IF lines = Empty THEN 0
    ELSE lines[1].price * lines[1].quantity
         + (IF lines[1].half THEN lines[1].price \div 2 ELSE 0)
         + SumLines(Tail(lines))

\* Math.round(x * 100) / 100 on an amount in mills
Round2(mills) == ((mills + 5) \div 10) * 10

\* a schema without the hook: the total stays what the caller passed
PreSaveKeepsTotal(order) == [order EXCEPT !.totalPrice = @]

\* OrderSchema.pre('save')
PreSave(order) ==
    IF Len(order.products) > 0
    THEN [order EXCEPT !.totalPrice = Round2(SumLines(order.products))]
    ELSE order

\* a line item that trusts the `price` the client put on the item
OrderProductFromRequest(it, prod) ==
    [name |-> prod.name, price |-> IF it.price # 0 THEN it.price ELSE prod.price,
     half |-> it.half,
     productId |-> it.productId, quantity |-> it.quantity]

\* the element pushed on orderProducts; `it` is the request item as the
\* client sent it, `prod` the document read under the session
OrderProduct(it, prod) ==
    [name |-> prod.name, price |-> prod.price,
     half |-> it.half, productId |-> it.productId, quantity |-> it.quantity]

----------------------------------------------------------------------------
(* Error messages and the status code placeOrder derives from them *)

Msg(text, arg) == [text |-> text, arg |-> arg]

\* the marker substrings each fixed message text contains
WordsOfText(text) ==
    CASE text = "Invalid product ID: " -> {"Invalid"}
      [] text = "Product quantity must be at least 1" -> {"must"}
      [] text = "Product not found: " -> {"not found"}
      [] text = "Insufficient stock for product " -> {"Insufficient"}
      [] OTHER -> {}

\* a product name an administrator may choose
OddName == "Lost and not found Tag"

\* the marker substrings a product name or id contains
WordsOfArg(arg) ==
    CASE arg = "must-have Widget" -> {"must"}
      [] arg = OddName -> {"not found"}
      [] OTHER -> {}

includes(msg, word) == word \in WordsOfText(msg.text) \cup WordsOfArg(msg.arg)

\* placeOrder's catch block: status from the error message
StatusFor(msg) ==
    IF includes(msg, "not found") THEN NOT_FOUND
    ELSE IF includes(msg, "Invalid") \/ includes(msg, "Insufficient") \/ includes(msg, "must")
         THEN BAD_REQUEST
    ELSE INTERNAL_SERVER_ERROR

----------------------------------------------------------------------------
(* OrderService.placeOrder, one action per await.  The length of           *)
(* orderData.products is fixed when the call arrives; each item is drawn    *)
(* when the for-loop reaches it.                                            *)

\* leave the call with response r and session s; `it` is the item at which
\* the loop stopped, kept as history
ReturnAt(c, s, r, it) ==
    /\ session' = [session EXCEPT ![c] = s]
    /\ resp' = [resp EXCEPT ![c] = r]
    /\ pc' = [pc EXCEPT ![c] = "done"]
    /\ reserved' = [reserved EXCEPT ![c] = Len(orderProducts[c])]
    /\ product' = [product EXCEPT ![c] = NoDoc]
    /\ orderProducts' = [orderProducts EXCEPT ![c] = Empty]
    /\ item' = [item EXCEPT ![c] = it]
    /\ idx' = [idx EXCEPT ![c] = 0]
    /\ req' = [req EXCEPT ![c] = Empty]

Return(c, s, r) == ReturnAt(c, s, r, NoItem)

Response(code, text) == [statusCode |-> code, message |-> text]

\* abortTransaction, endSession, throw new Error(msg), then the catch block
ThrowAt(c, s, msg, it) ==
    LET a == AbortAndEnd(s)
        m == IF a.threw THEN Msg("driver error", "") ELSE msg
    IN ReturnAt(c, CatchAbort(a.s), Response(StatusFor(m), m.text), it)

Throw(c, s, msg) == ThrowAt(c, s, msg, NoItem)

\* abortTransaction, endSession, return ErrorResponse.createBadRequest(text)
ReturnBadRequest(c, s, text) ==
    LET a == AbortAndEnd(s)
    IN IF a.threw
       THEN Return(c, CatchAbort(a.s),
                   Response(StatusFor(Msg("driver error", "")), "driver error"))
       ELSE Return(c, a.s, Response(BAD_REQUEST, text))

\* placeOrder up to the loop: startTransaction, then the checks of userId
\* and of the length of orderData.products; Requests are the requests the
\* call may carry, each with the `length` of its item list
PlaceOrderEntry(c, Requests) ==
    /\ attempts' = [attempts EXCEPT ![c] = @ + 1]
    /\ \E r \in Requests :
        LET s == startTransaction
        IN IF ~ValidObjectId(UserOf[c])
           THEN ReturnBadRequest(c, s, "Invalid ID format")
           ELSE IF r.length = 0
           THEN ReturnBadRequest(c, s, "Order must contain at least one product")
           ELSE /\ session' = [session EXCEPT ![c] = s]
                /\ req' = [req EXCEPT ![c] = r]
                /\ pc' = [pc EXCEPT ![c] = "find"]
                /\ idx' = [idx EXCEPT ![c] = 1]
                /\ UNCHANGED <<resp, product, orderProducts, item, reserved>>
    /\ UNCHANGED <<products, orders>>

\* the service is called with an item list of one of the lengths Lens
PlaceOrder(c, Lens) ==
    /\ pc[c] = "idle"
    /\ PlaceOrderEntry(c, {[length |-> n] : n \in Lens})

\* a check that only asks whether any stock is left
InsufficientStockNoneLeft(prod, it) == prod.stock < 1

\* the stock check of the loop body
InsufficientStock(prod, it) ==
    Halves(prod.stock, prod.half) < Halves(it.quantity, it.half)

\* the item as client c sent it
Sent(c, it) ==
    [price |-> ClientPrice[c], half |-> it.half, productId |-> it.productId,
     quantity |-> it.quantity]

\* loop body up to the stock check: validate the item, read the product
FindProduct(c, ItemSet, DbErrors) ==
    /\ pc[c] = "find"
    /\ \E it \in ItemSet :
        IF ~ValidObjectId(it.productId)
        THEN ThrowAt(c, session[c], Msg("Invalid product ID: ", it.productId), Sent(c, it))
        ELSE IF it.quantity < 1
        THEN ThrowAt(c, session[c], Msg("Product quantity must be at least 1", ""),
                     Sent(c, it))
        ELSE \E dbError \in DbErrors :
              LET s == WithSnapshot(session[c])
                  productResult == findByIdWithTransaction(s, it.productId, dbError)
              IN IF ~productResult.success
                 THEN ThrowAt(c, s, Msg("Product not found: ", it.productId), Sent(c, it))
                 ELSE IF InsufficientStock(productResult.data, it)
                 THEN ThrowAt(c, s, Msg("Insufficient stock for product ",
                                        productResult.data.name), Sent(c, it))
                 ELSE /\ session' = [session EXCEPT ![c] = s]
                      /\ item' = [item EXCEPT ![c] = Sent(c, it)]
                      /\ product' = [product EXCEPT ![c] = productResult.data]
                      /\ pc' = [pc EXCEPT ![c] = "update"]
                      /\ UNCHANGED <<resp, orderProducts, idx, req, reserved>>
    /\ UNCHANGED <<products, orders, attempts>>

\* the loop body writing the stock with updateById, outside the session: the
\* write is committed at once and aborting the transaction does not undo it
UpdateStockOutsideSession(c, DbErrors) ==
    /\ pc[c] = "update"
    /\ \E dbError \in DbErrors :
        LET it == item[c]
            newStock == product[c].stock - it.quantity
        IN IF dbError
           THEN /\ Throw(c, session[c],
                         Msg("Failed to update stock for product: ", product[c].name))
                /\ UNCHANGED products
           ELSE /\ products' = [products EXCEPT ![it.productId].stock = newStock,
                                                ![it.productId].ver = @ + 1]
                /\ orderProducts' = [orderProducts EXCEPT
                       ![c] = Append(@, OrderProduct(it, product[c]))]
                /\ IF idx[c] < req[c].length
                   THEN /\ idx' = [idx EXCEPT ![c] = @ + 1]
                        /\ pc' = [pc EXCEPT ![c] = "find"]
                   ELSE /\ idx' = idx
                        /\ pc' = [pc EXCEPT ![c] = "create"]
                /\ UNCHANGED <<session, resp, product, item, req, reserved>>
    /\ UNCHANGED <<orders, attempts>>

\* a store that makes the stock write wait for the open transaction that
\* holds a write on the product, instead of failing the write
UpdateStockWaits(c, DbErrors) ==
    /\ pc[c] = "update"
    /\ ~\E t \in DOMAIN session :
           t # c /\ session[t].txn = "active" /\ item[c].productId \in DOMAIN session[t].wP
    /\ \E dbError \in DbErrors :
        LET it == item[c]
            newStock == Halves(product[c].stock, product[c].half)
                        - Halves(it.quantity, it.half)
            updateResult == updateByIdWithTransaction(c, it.productId,
                                [stock |-> newStock \div 2, half |-> newStock % 2 = 1],
                                dbError)
        IN IF ~updateResult.success
           THEN Throw(c, session[c],
                      Msg("Failed to update stock for product: ", product[c].name))
           ELSE /\ session' = [session EXCEPT
                       ![c].wP = Extend(@, it.productId, updateResult.data)]
                /\ orderProducts' = [orderProducts EXCEPT
                       ![c] = Append(@, OrderProduct(it, product[c]))]
                /\ IF idx[c] < req[c].length
                   THEN /\ idx' = [idx EXCEPT ![c] = @ + 1]
                        /\ pc' = [pc EXCEPT ![c] = "find"]
                   ELSE /\ idx' = idx
                        /\ pc' = [pc EXCEPT ![c] = "create"]
                /\ UNCHANGED <<resp, product, item, req, reserved>>
    /\ UNCHANGED <<products, orders, attempts>>

\* loop body from the stock write on: write the new stock, push the line item
UpdateStock(c, DbErrors) ==
    /\ pc[c] = "update"
    /\ \E dbError \in DbErrors :
        LET it == item[c]
            newStock == Halves(product[c].stock, product[c].half)
                        - Halves(it.quantity, it.half)
            updateResult == updateByIdWithTransaction(c, it.productId,
                                [stock |-> newStock \div 2, half |-> newStock % 2 = 1],
                                dbError)
        IN IF ~updateResult.success
           THEN Throw(c, session[c],
                      Msg("Failed to update stock for product: ", product[c].name))
           ELSE /\ session' = [session EXCEPT
                       ![c].wP = Extend(@, it.productId, updateResult.data)]
                /\ orderProducts' = [orderProducts EXCEPT
                       ![c] = Append(@, OrderProduct(it, product[c]))]
                /\ IF idx[c] < req[c].length
                   THEN /\ idx' = [idx EXCEPT ![c] = @ + 1]
                        /\ pc' = [pc EXCEPT ![c] = "find"]
                   ELSE /\ idx' = idx
                        /\ pc' = [pc EXCEPT ![c] = "create"]
                /\ UNCHANGED <<resp, product, item, req, reserved>>
    /\ UNCHANGED <<products, orders, attempts>>

\* the validators of OrderProductSchema: quantity is an integer of at least 1
ValidOrder(data) ==
    \A i \in DOMAIN data.products :
        ~data.products[i].half /\ data.products[i].quantity >= 1

\* BaseRepository.createWithTransaction: Model.create([data], { session })
\* validates the document, runs the pre-save hook and inserts it; a
\* validation error is caught like any other and becomes a 500 result
createWithTransaction(data, dbError) ==
    IF dbError \/ ~ValidOrder(data) THEN Result(FALSE, INTERNAL_SERVER_ERROR, data)
    ELSE Result(TRUE, CREATED, PreSave(data))

\* a `status` field that client c puts in the request body ("" for none)
ForgedStatus == "shipped"
ClientStatus == [c \in Callers |-> IF c = "c1" THEN ForgedStatus ELSE ""]

\* an order document that takes the status the client sent
NewOrderClientStatus(userId, lines, sentStatus) ==
    [products |-> lines, status |-> IF sentStatus # "" THEN sentStatus ELSE "pending",
     ver |-> 0,
     totalPrice |-> 0, userId |-> userId]

\* the document handed to createWithTransaction
NewOrder(userId, lines, sentStatus) ==
    [products |-> lines, status |-> "pending", ver |-> 0,
     totalPrice |-> 0, userId |-> userId]

\* the order inserted with create, outside the session: it is visible at once
CreateOrderOutsideSession(c, DbErrors) ==
    /\ pc[c] = "create"
    /\ \E dbError \in DbErrors :
        LET data == NewOrder(UserOf[c], orderProducts[c], ClientStatus[c])
            createResult == createWithTransaction(data, dbError)
        IN IF ~createResult.success
           THEN /\ Throw(c, session[c], Msg("Failed to create order", ""))
                /\ UNCHANGED orders
           ELSE /\ orders' = Extend(orders, c, createResult.data)
                /\ pc' = [pc EXCEPT ![c] = "commit"]
                /\ UNCHANGED <<session, resp, product, orderProducts, idx, item, req,
                               reserved>>
    /\ UNCHANGED <<products, attempts>>

\* the order insert, under the session
CreateOrder(c, DbErrors) ==
    /\ pc[c] = "create"
    /\ \E dbError \in DbErrors :
        LET data == NewOrder(UserOf[c], orderProducts[c], ClientStatus[c])
            createResult == createWithTransaction(data, dbError)
        IN IF ~createResult.success
           THEN Throw(c, session[c], Msg("Failed to create order", ""))
           ELSE /\ session' = [session EXCEPT ![c].wO = Extend(@, c, createResult.data)]
                /\ pc' = [pc EXCEPT ![c] = "commit"]
                /\ UNCHANGED <<resp, product, orderProducts, idx, item, req, reserved>>
    /\ UNCHANGED <<products, orders, attempts>>

\* the committed products after the session's writes are installed
InstallP(s) ==
    [p \in DOMAIN products |->
        IF p \in DOMAIN s.wP
        THEN [s.wP[p] EXCEPT !.ver = products[p].ver + 1]
        ELSE products[p]]

\* the committed orders after the session's writes are installed
InstallO(s) ==
    [o \in DOMAIN orders \cup DOMAIN s.wO |->
        IF o \in DOMAIN s.wO
        THEN [s.wO[o] EXCEPT !.ver = IF o \in DOMAIN orders THEN orders[o].ver + 1 ELSE 0]
        ELSE orders[o]]

\* the session once commitTransaction has run: the driver marks the
\* transaction committed whether or not the command succeeded
Committed(s) ==
    [s EXCEPT !.txn = "committed", !.hasSnap = FALSE, !.snapP = Empty,
              !.snapO = Empty, !.wP = Empty, !.wO = Empty]

\* what `await session.commitTransaction()` can do: commit and return, raise
\* with nothing committed, or raise although the server made the transaction
\* durable (the reply was lost: the driver reports an unknown commit result)
CommitOutcomes == {"ok", "failed", "unknown"}

\* commitTransaction, endSession, return 201; a commit that raises throws
\* into the catch block
CommitOrder(c, Outcomes) ==
    /\ pc[c] = "commit"
    /\ \E outcome \in Outcomes :
        /\ IF outcome = "failed"
           THEN UNCHANGED <<products, orders>>
           ELSE /\ products' = InstallP(session[c])
                /\ orders' = InstallO(session[c])
        /\ IF outcome = "ok"
           THEN Return(c, endSession(Committed(session[c])),
                       Response(CREATED, "Operation completed successfully"))
           ELSE Return(c, CatchAbort(Committed(session[c])),
                       Response(StatusFor(Msg("driver error", "")), "driver error"))
    /\ UNCHANGED attempts

----------------------------------------------------------------------------
(* ProductService.updateProduct, one action per await *)

NewName == "must-have Widget"
NewPrice == 990

\* productId and updateData of an updateProduct call
UpdateRequests ==
    [productId : ProductIds,
     data : {[name |-> NewName], [price |-> NewPrice],
             [name |-> NewName, price |-> NewPrice]}]

\* BaseRepository.findById: a read outside any session
findById(id, dbError) ==
    IF ~ValidObjectId(id) THEN Result(FALSE, BAD_REQUEST, NoDoc)
    ELSE IF dbError THEN Result(FALSE, INTERNAL_SERVER_ERROR, NoDoc)
    ELSE IF id \notin DOMAIN products THEN Result(FALSE, NOT_FOUND, NoDoc)
    ELSE Result(TRUE, 200, products[id])

\* leave updateProduct with response r and session s
ReturnUpdate(a, s, r) ==
    /\ session' = [session EXCEPT ![a] = s]
    /\ resp' = [resp EXCEPT ![a] = r]
    /\ pc' = [pc EXCEPT ![a] = "done"]
    /\ product' = [product EXCEPT ![a] = NoDoc]
    /\ req' = [req EXCEPT ![a] = Empty]

\* the catch block of updateProduct: abortTransaction and endSession are not
\* guarded, so an exception of abortTransaction leaves updateProduct
CatchUpdate(a, s) ==
    LET e == AbortAndEnd(s)
    IN IF e.threw
       THEN ReturnUpdate(a, e.s, Response(INTERNAL_SERVER_ERROR, "uncaught driver error"))
       ELSE ReturnUpdate(a, e.s, Response(INTERNAL_SERVER_ERROR, "Internal server error"))

\* abortTransaction, endSession, return r, as written before the early returns
AbortReturn(a, s, r) ==
    LET e == AbortAndEnd(s)
    IN IF e.threw THEN CatchUpdate(a, e.s) ELSE ReturnUpdate(a, e.s, r)

UpdateProduct(a) ==
    /\ pc[a] = "idle"
    /\ \E r \in UpdateRequests : req' = [req EXCEPT ![a] = r]
    /\ session' = [session EXCEPT ![a] = startTransaction]
    /\ pc' = [pc EXCEPT ![a] = "existing"]
    /\ attempts' = [attempts EXCEPT ![a] = @ + 1]
    /\ UNCHANGED <<products, orders, idx, item, product, orderProducts, resp, reserved>>

\* const existingProduct = await this.productRepository.findById(productId)
FindExisting(a, DbErrors) ==
    /\ pc[a] = "existing"
    /\ \E dbError \in DbErrors :
        LET existingProduct == findById(req[a].productId, dbError)
        IN IF ~existingProduct.success
           THEN AbortReturn(a, session[a], Response(NOT_FOUND, "Product not found"))
           ELSE /\ product' = [product EXCEPT ![a] = existingProduct.data]
                /\ pc' = [pc EXCEPT ![a] = "write"]
                /\ UNCHANGED <<session, resp, req>>
    /\ UNCHANGED <<products, orders, idx, item, orderProducts, reserved, attempts>>

nameChanged(a) == "name" \in DOMAIN req[a].data /\ req[a].data.name # product[a].name
priceChanged(a) == "price" \in DOMAIN req[a].data /\ req[a].data.price # product[a].price

\* the product write under the session
UpdateDocument(a, DbErrors) ==
    /\ pc[a] = "write"
    /\ \E dbError \in DbErrors :
        LET result == updateByIdWithTransaction(a, req[a].productId, req[a].data, dbError)
        IN IF ~result.success
           THEN AbortReturn(a, session[a],
                            Response(INTERNAL_SERVER_ERROR, "Failed to update product"))
           ELSE /\ session' = [session EXCEPT
                       ![a] = [WithSnapshot(session[a]) EXCEPT
                                 !.wP = Extend(@, req[a].productId, result.data)]]
                /\ pc' = [pc EXCEPT
                       ![a] = IF nameChanged(a) \/ priceChanged(a) THEN "rewrite" ELSE "commit"]
                /\ UNCHANGED <<resp, req, product>>
    /\ UNCHANGED <<products, orders, idx, item, orderProducts, reserved, attempts>>

\* a rewrite that carries the new name but leaves the price of the lines
RewriteLinesNameOnly(lines, id, data, nameCh, priceCh) ==
    [i \in DOMAIN lines |->
        IF lines[i].productId = id /\ nameCh
        THEN [lines[i] EXCEPT !.name = data.name]
        ELSE lines[i]]

\* the inner loop over order.products: rewrite the lines of product `id`
RewriteLines(lines, id, data, nameCh, priceCh) ==
    [i \in DOMAIN lines |->
        IF lines[i].productId = id
        THEN [lines[i] EXCEPT
                !.name = IF nameCh THEN data.name ELSE @,
                !.price = IF priceCh THEN data.price ELSE @]
        ELSE lines[i]]

\* one order as updateProduct saves it: lines rewritten, total recomputed and
\* rounded, then the pre-save hook of order.save
RewriteOrder(order, id, data, nameCh, priceCh) ==
    LET lines == RewriteLines(order.products, id, data, nameCh, priceCh)
        total == SumLines(lines)
    IN PreSave([order EXCEPT !.products = lines, !.totalPrice = Round2(total)])

\* Order.find({ 'products.productId': productId }, null, { session })
OrdersWithProduct(s, id) ==
    {o \in DOMAIN ViewO(s) :
        \E i \in DOMAIN ViewO(s)[o].products : ViewO(s)[o].products[i].productId = id}

\* order.save({ session }) conflicts when the order changed after the snapshot
\* or another open transaction wrote it
WriteConflictO(a, o) ==
    \/ o \notin DOMAIN orders
    \/ orders[o].ver # session[a].snapO[o].ver
    \/ \E t \in DOMAIN session :
          t # a /\ session[t].txn = "active" /\ o \in DOMAIN session[t].wO

\* the loop over the orders that contain the product
RewriteOrders(a, DbErrors) ==
    /\ pc[a] = "rewrite"
    /\ LET s == session[a]
           found == OrdersWithProduct(s, req[a].productId)
       IN \E dbError \in DbErrors :
            IF found # {} /\ (dbError \/ \E o \in found : WriteConflictO(a, o))
            THEN CatchUpdate(a, s)
            ELSE /\ session' = [session EXCEPT ![a].wO =
                        [o \in DOMAIN s.wO \cup found |->
                            IF o \in found
                            THEN RewriteOrder(ViewO(s)[o], req[a].productId, req[a].data,
                                              nameChanged(a), priceChanged(a))
                            ELSE s.wO[o]]]
                 /\ pc' = [pc EXCEPT ![a] = "commit"]
                 /\ UNCHANGED <<resp, req, product>>
    /\ UNCHANGED <<products, orders, idx, item, orderProducts, reserved, attempts>>

\* commitTransaction, endSession, return 200; a failed commit throws into the
\* catch block
CommitUpdate(a, Outcomes) ==
    /\ pc[a] = "commit"
    /\ \E outcome \in Outcomes :
        /\ IF outcome = "failed"
           THEN UNCHANGED <<products, orders>>
           ELSE /\ products' = InstallP(session[a])
                /\ orders' = InstallO(session[a])
        /\ IF outcome = "ok"
           THEN ReturnUpdate(a, endSession(Committed(session[a])),
                             Response(200,
                                 IF nameChanged(a) \/ priceChanged(a)
                                 THEN "Product and related orders updated successfully"
                                 ELSE "Product updated successfully"))
           ELSE CatchUpdate(a, Committed(session[a]))
    /\ UNCHANGED <<idx, item, orderProducts, reserved, attempts>>

----------------------------------------------------------------------------
(* Writes outside a session: OrderRepository.updateOrderStatus and          *)
(* ProductService.deleteProduct                                             *)

\* the message of a failed repository result
RepositoryMessage(code) ==
    IF code = BAD_REQUEST THEN "Invalid ID format"
    ELSE IF code = NOT_FOUND THEN "Resource not found"
    ELSE "Database operation failed"

\* BaseRepository.updateById on the collection `docs`: one findByIdAndUpdate
updateById(docs, id, data, dbError) ==
    IF ~ValidObjectId(id) THEN Result(FALSE, BAD_REQUEST, NoDoc)
    ELSE IF dbError THEN Result(FALSE, INTERNAL_SERVER_ERROR, NoDoc)
    ELSE IF id \notin DOMAIN docs THEN Result(FALSE, NOT_FOUND, NoDoc)
    ELSE Result(TRUE, 200, Patch(docs[id], data))

\* BaseRepository.deleteById on the collection `docs`: one findByIdAndDelete
deleteById(docs, id, dbError) ==
    IF ~ValidObjectId(id) THEN Result(FALSE, BAD_REQUEST, NoDoc)
    ELSE IF dbError THEN Result(FALSE, INTERNAL_SERVER_ERROR, NoDoc)
    ELSE IF id \notin DOMAIN docs THEN Result(FALSE, NOT_FOUND, NoDoc)
    ELSE Result(TRUE, 200, docs[id])

\* a write outside a transaction waits while an open transaction holds a
\* write on the product
ProductWriteHeld(id) ==
    \E t \in DOMAIN session : session[t].txn = "active" /\ id \in DOMAIN session[t].wP

\* an update that replaces the lines along with the status
updateOrderStatusAndLines(orderId, status, dbError) ==
    IF ~ValidObjectId(orderId) THEN Result(FALSE, BAD_REQUEST, NoDoc)
    ELSE updateById(orders, orderId, [products |-> Empty, status |-> status], dbError)

\* updateData = { status }
updateOrderStatus(orderId, status, dbError) ==
    IF ~ValidObjectId(orderId) THEN Result(FALSE, BAD_REQUEST, NoDoc)
    ELSE updateById(orders, orderId, [status |-> status], dbError)

\* one call of updateOrderStatus; a write outside a transaction waits while
\* an open transaction holds a write on the same document
UpdateOrderStatus(x, OrderIdSet, Statuses, DbErrors) ==
    /\ pc[x] = "idle"
    /\ \E orderId \in OrderIdSet, status \in Statuses, dbError \in DbErrors :
        /\ ~\E t \in DOMAIN session :
               session[t].txn = "active" /\ orderId \in DOMAIN orders
                                         /\ orderId \in DOMAIN session[t].wO
        /\ LET result == updateOrderStatus(orderId, status, dbError)
           IN /\ orders' = IF result.success
                           THEN [orders EXCEPT ![orderId] =
                                    [result.data EXCEPT !.ver = @ + 1]]
                           ELSE orders
              /\ resp' = [resp EXCEPT ![x] =
                            Response(result.statusCode,
                                     IF result.success THEN "Data updated successfully"
                                     ELSE RepositoryMessage(result.statusCode))]
    /\ pc' = [pc EXCEPT ![x] = "done"]
    /\ UNCHANGED <<products, session, req, idx, item, product, orderProducts,
                   reserved, attempts>>

\* productId, quantity and operation of a ProductRepository.updateStock call
StockRequests ==
    [productId : {"p1", UnknownProduct}, quantity : 1 .. MaxQty,
     operation : {"increase", "decrease"}]

\* updateStock up to the write: findById, then the stock check of a decrease
ReadStock(c, Requests, DbErrors) ==
    /\ pc[c] = "idle"
    /\ \E r \in Requests, dbError \in DbErrors :
        LET productResult == findById(r.productId, dbError)
            currentStock == productResult.data
        IN /\ req' = [req EXCEPT ![c] = r]
           /\ IF ~productResult.success
              THEN /\ resp' = [resp EXCEPT ![c] = Response(NOT_FOUND, "Product not found")]
                   /\ pc' = [pc EXCEPT ![c] = "done"]
                   /\ UNCHANGED product
              ELSE IF r.operation = "decrease"
                      /\ Halves(currentStock.stock, currentStock.half) < 2 * r.quantity
              THEN /\ resp' = [resp EXCEPT ![c] = Response(BAD_REQUEST, "Insufficient stock")]
                   /\ pc' = [pc EXCEPT ![c] = "done"]
                   /\ UNCHANGED product
              ELSE /\ product' = [product EXCEPT ![c] = currentStock]
                   /\ pc' = [pc EXCEPT ![c] = "stockWrite"]
                   /\ UNCHANGED resp
    /\ UNCHANGED <<products, orders, session, idx, item, orderProducts, reserved,
                   attempts>>

\* newStock from the stock read earlier, then updateById(productId, { stock })
WriteStock(c, DbErrors) ==
    /\ pc[c] = "stockWrite"
    /\ ~ProductWriteHeld(req[c].productId)
    /\ \E dbError \in DbErrors :
        LET currentStock == product[c].stock
            newStock == IF req[c].operation = "decrease"
                        THEN currentStock - req[c].quantity
                        ELSE currentStock + req[c].quantity
            result == updateById(products, req[c].productId, [stock |-> newStock],
                                 dbError)
        IN IF ~result.success
           THEN /\ resp' = [resp EXCEPT ![c] =
                              Response(result.statusCode,
                                       RepositoryMessage(result.statusCode))]
                /\ UNCHANGED <<products, reserved>>
           ELSE /\ products' = [products EXCEPT ![req[c].productId] =
                                    [result.data EXCEPT !.ver = @ + 1]]
                /\ reserved' = [reserved EXCEPT ![c] =
                                    IF req[c].operation = "decrease"
                                    THEN req[c].quantity ELSE 0 - req[c].quantity]
                /\ resp' = [resp EXCEPT ![c] = Response(200, "Data updated successfully")]
    /\ pc' = [pc EXCEPT ![c] = "done"]
    /\ product' = [product EXCEPT ![c] = NoDoc]
    /\ UNCHANGED <<orders, session, req, idx, item, orderProducts, attempts>>

\* leave deleteProduct with response r
ReturnDelete(a, r) ==
    /\ resp' = [resp EXCEPT ![a] = r]
    /\ pc' = [pc EXCEPT ![a] = "done"]
    /\ product' = [product EXCEPT ![a] = NoDoc]
    /\ req' = [req EXCEPT ![a] = Empty]

DeleteProduct(a, IdSet) ==
    /\ pc[a] = "idle"
    /\ \E id \in IdSet : req' = [req EXCEPT ![a] = [productId |-> id]]
    /\ pc' = [pc EXCEPT ![a] = "deleteExisting"]
    /\ UNCHANGED <<products, orders, session, idx, item, product, orderProducts,
                   resp, reserved, attempts>>

\* const existingProduct = await this.productRepository.findById(productId)
FindToDelete(a, DbErrors) ==
    /\ pc[a] = "deleteExisting"
    /\ \E dbError \in DbErrors :
        LET existingProduct == findById(req[a].productId, dbError)
        IN IF ~existingProduct.success
           THEN ReturnDelete(a, Response(NOT_FOUND, "Product not found"))
           ELSE /\ product' = [product EXCEPT ![a] = existingProduct.data]
                /\ pc' = [pc EXCEPT ![a] = "count"]
                /\ UNCHANGED <<resp, req>>
    /\ UNCHANGED <<products, orders, session, idx, item, orderProducts, reserved,
                   attempts>>

\* Order.countDocuments({ 'products.productId': productId }), outside any
\* session: the committed orders that have a line of the product
countDocuments(id) ==
    Cardinality({o \in DOMAIN orders :
                    \E i \in DOMAIN orders[o].products :
                        orders[o].products[i].productId = id})

\* the count and the branch taken on it
CountOrders(a, DbErrors) ==
    /\ pc[a] = "count"
    /\ \E dbError \in DbErrors :
        IF dbError
        THEN ReturnDelete(a, Response(INTERNAL_SERVER_ERROR, "Internal server error"))
        ELSE /\ pc' = [pc EXCEPT ![a] = IF countDocuments(req[a].productId) > 0
                                        THEN "softDelete" ELSE "hardDelete"]
             /\ UNCHANGED <<resp, req, product>>
    /\ UNCHANGED <<products, orders, session, idx, item, orderProducts, reserved,
                   attempts>>

\* soft delete: updateById(productId, { status: 'deleted' })
SoftDelete(a, DbErrors) ==
    /\ pc[a] = "softDelete"
    /\ ~ProductWriteHeld(req[a].productId)
    /\ \E dbError \in DbErrors :
        LET result == updateById(products, req[a].productId, [status |-> "deleted"],
                                 dbError)
        IN IF ~result.success
           THEN /\ ReturnDelete(a, Response(result.statusCode,
                                             RepositoryMessage(result.statusCode)))
                /\ UNCHANGED products
           ELSE /\ products' = [products EXCEPT ![req[a].productId] =
                                    [result.data EXCEPT !.ver = @ + 1]]
                /\ ReturnDelete(a, Response(200, "Product soft deleted successfully"))
    /\ UNCHANGED <<orders, session, idx, item, orderProducts, reserved, attempts>>

\* hard delete: deleteById(productId)
HardDelete(a, DbErrors) ==
    /\ pc[a] = "hardDelete"
    /\ ~ProductWriteHeld(req[a].productId)
    /\ \E dbError \in DbErrors :
        LET result == deleteById(products, req[a].productId, dbError)
        IN IF ~result.success
           THEN /\ ReturnDelete(a, Response(result.statusCode,
                                             RepositoryMessage(result.statusCode)))
                /\ UNCHANGED products
           ELSE /\ products' = [p \in DOMAIN products \ {req[a].productId} |->
                                    products[p]]
                /\ ReturnDelete(a, Response(200, "Product permanently deleted"))
    /\ UNCHANGED <<orders, session, idx, item, orderProducts, reserved, attempts>>

----------------------------------------------------------------------------
(* Order lookups: GET /orders/:id and GET /orders *)

\* req.user of an authenticated request
Identities ==
    {[userId |-> "u1", role |-> "user"], [userId |-> "u2", role |-> "user"],
     [userId |-> "admin1", role |-> "admin"]}

MissingOrderId == "o9"

\* this.model.findOne(filter): some document matching every field
findOne(filter) ==
    LET hits == {o \in DOMAIN orders :
                    /\ "id" \in DOMAIN filter => o = filter["id"]
                    /\ "userId" \in DOMAIN filter => orders[o].userId = filter["userId"]}
    IN IF hits = {} THEN Result(FALSE, NOT_FOUND, NoDoc)
       ELSE Result(TRUE, 200, orders[CHOOSE o \in hits : TRUE])

\* a lookup by id alone, as BaseRepository.findById does it
findOrderByIdOnly(orderId, userId) ==
    IF ~ValidObjectId(orderId) \/ ~ValidObjectId(userId)
    THEN [statusCode |-> BAD_REQUEST, message |-> "Invalid ID format", success |-> FALSE]
    ELSE LET order == findOne([id |-> orderId])
         IN IF ~order.success
            THEN [statusCode |-> NOT_FOUND, message |-> "Resource not found",
                  success |-> FALSE]
            ELSE [statusCode |-> 200, message |-> "Data retrieved successfully",
                  success |-> TRUE, data |-> order.data]

\* OrderRepository.findOrderByIdAndUser
findOrderByIdAndUser(orderId, userId) ==
    IF ~ValidObjectId(orderId) \/ ~ValidObjectId(userId)
    THEN [statusCode |-> BAD_REQUEST, message |-> "Invalid ID format", success |-> FALSE]
    ELSE LET order == findOne([id |-> orderId, userId |-> userId])
         IN IF ~order.success
            THEN [statusCode |-> NOT_FOUND, message |-> "Resource not found",
                  success |-> FALSE]
            ELSE [statusCode |-> 200, message |-> "Data retrieved successfully",
                  success |-> TRUE, data |-> order.data]

\* OrderService.getOrderById
getOrderById(orderId, userId) ==
    IF ~ValidObjectId(orderId) \/ ~ValidObjectId(userId)
    THEN [statusCode |-> BAD_REQUEST, message |-> "Invalid ID format", success |-> FALSE]
    ELSE findOrderByIdAndUser(orderId, userId)

\* the body OrderController.getOrderById sends for a service result
OrderByIdResponse(user, orderId) ==
    LET result == getOrderById(orderId, user.userId)
    IN IF ~result.success
       THEN [statusCode |-> result.statusCode, message |-> result.message,
             success |-> FALSE]
       ELSE [statusCode |-> 200, message |-> result.message, success |-> TRUE,
             object |-> result.data]

\* OrderController.getOrderById
GetOrderById(r, OrderIdSet) ==
    /\ pc[r] = "idle"
    /\ pc' = [pc EXCEPT ![r] = "done"]
    /\ \E user \in Identities, orderId \in OrderIdSet :
          /\ req' = [req EXCEPT ![r] = [orderId |-> orderId, user |-> user,
                                        op |-> "getOrderById"]]
          /\ resp' = [resp EXCEPT ![r] = OrderByIdResponse(user, orderId)]
    /\ UNCHANGED <<products, orders, session, idx, item, product, orderProducts,
                   reserved, attempts>>

ValidStatuses == {"shipped", "pending", "processing", "delivered", "cancelled"}

\* String.prototype.toLowerCase on the status values a query carries
toLowerCase(str) ==
    CASE str = "SHIPPED" -> "shipped"
      [] str = "Pending" -> "pending"
      [] OTHER -> str

\* req.query of GET /orders: any of status and userId may be present
Queries ==
    {Empty} \cup [status : {"SHIPPED", "Pending", "bogus"}]
            \cup [userId : {"u2"}]
            \cup [status : {"Pending"}, userId : {"u1", "u2"}]

\* OrderController.buildFilter: only the keys it knows reach the filter
buildFilter(query) ==
    IF "status" \in DOMAIN query /\ toLowerCase(query["status"]) \in ValidStatuses
    THEN [status |-> toLowerCase(query["status"])]
    ELSE Empty

\* a handler that forwards the query filter without the caller's id
HistoryFilterUnscoped(query, userId) == buildFilter(query)

\* getOrderHistory: const filters = this.buildFilter(req.query);
\* filters.userId = userId
HistoryFilter(query, userId) == Extend(buildFilter(query), "userId", userId)

\* the orders a filter selects
Matching(filter) ==
    {o \in DOMAIN orders : \A k \in DOMAIN filter : orders[o][k] = filter[k]}

\* ObjectIds ascend with the time of creation, and so does createdAt
CreatedAt(o) ==
    CASE o = "o1" -> 1 [] o = "o2" -> 2 [] o = "o3" -> 3 [] o = "c2" -> 5 [] OTHER -> 4

RECURSIVE SortedByCreatedAtDesc(_)
\* .sort('-createdAt')
SortedByCreatedAtDesc(os) ==
    IF os = {} THEN Empty
    ELSE LET newest == CHOOSE o \in os : \A x \in os : CreatedAt(x) <= CreatedAt(o)
         IN <<newest>> \o SortedByCreatedAtDesc(os \ {newest})

DefaultLimit == 10

\* BaseRepository.findAll: one page of the documents the filter selects,
\* and the count of all the documents it selects
findAll(filter, page, limit) ==
    LET p == IF page > 0 THEN page ELSE 1
        l == IF limit > 0 THEN limit ELSE DefaultLimit
        skip == (p - 1) * l
        hits == SortedByCreatedAtDesc(Matching(filter))
        onPage == IF Len(hits) - skip < 0 THEN 0
                  ELSE IF Len(hits) - skip < l THEN Len(hits) - skip ELSE l
        totalItems == Cardinality(Matching(filter))
        totalPages == (totalItems + l - 1) \div l
    IN [statusCode |-> 200,
        message |-> "Data retrieved successfully",
        success |-> TRUE, data |-> [i \in 1 .. onPage |->
                    [status |-> orders[hits[skip + i]].status,
                     id |-> hits[skip + i],
                     totalPrice |-> orders[hits[skip + i]].totalPrice,
                     userId |-> orders[hits[skip + i]].userId]],
        page |-> p,
        limit |-> l,
        totalItems |-> totalItems, totalPages |-> IF totalPages > 0 THEN totalPages ELSE 1]

\* OrderService.getUserOrdersWithFilters: the filter goes to the repository
\* as the controller built it
getUserOrdersWithFilters(filters, page, limit) == findAll(filters, page, limit)

\* the page and limit query parameters after parseInt
PageNumbers == 0 .. 2
PageSizes == 0 .. 2

\* the body OrderController.getOrderHistory sends
OrderHistoryResponse(user, query, page, limit) ==
    LET filters == HistoryFilter(query, user.userId)
        result == getUserOrdersWithFilters(filters, page, limit)
    IN [statusCode |-> 200, message |-> result.message,
        success |-> TRUE, object |-> result.data,
        totalPages |-> result.totalPages, pageNumber |-> result.page,
        pageSize |-> result.limit, totalSize |-> result.totalItems]

\* OrderController.getOrderHistory
GetOrderHistory(r) ==
    /\ pc[r] = "idle"
    /\ pc' = [pc EXCEPT ![r] = "done"]
    /\ \E user \in Identities, query \in Queries,
          page \in PageNumbers, limit \in PageSizes :
          /\ req' = [req EXCEPT ![r] = [user |-> user, op |-> "getOrderHistory",
                                        query |-> query, page |-> page,
                                        limit |-> limit]]
          /\ resp' = [resp EXCEPT ![r] = OrderHistoryResponse(user, query, page, limit)]
    /\ UNCHANGED <<products, orders, session, idx, item, product, orderProducts,
                   reserved, attempts>>

----------------------------------------------------------------------------
(* The routes of /orders: authenticate, validate(createOrderSchema) and    *)
(* the controller in front of the service.  Requests are those the rate    *)
(* limiter lets through.                                                    *)

NoUser == [userId |-> "", role |-> ""]

\* the Authorization header: absent, a token that fails jwt.verify, or a
\* token signed for `user`
Tokens(users) ==
    {[user |-> NoUser, kind |-> "none"]} \cup [user : users, kind : {"forged", "valid"}]

\* a middleware that takes the payload of any token without verifying it
authenticateUnverified(token) ==
    IF token.kind = "none"
    THEN [message |-> "Authentication token required", ok |-> FALSE, user |-> NoUser]
    ELSE [message |-> "", ok |-> TRUE, user |-> token.user]

\* the authenticate middleware: req.user is set from a verified token only
authenticate(token) ==
    IF token.kind = "none"
    THEN [message |-> "Authentication token required", ok |-> FALSE, user |-> NoUser]
    ELSE IF token.kind # "valid"
    THEN [message |-> "You are not authorized to perform this action", ok |-> FALSE,
          user |-> NoUser]
    ELSE [message |-> "", ok |-> TRUE, user |-> token.user]

\* the numbers a client may send as quantity: none at all, or a multiple of
\* one half from -1 upwards
RawQuantities ==
    {[half |-> FALSE, quantity |-> 0, given |-> FALSE]}
        \cup [half : BOOLEAN, quantity : -1 .. MaxQty, given : {TRUE}]

\* the product ids a client may send; "" stands for a missing field
RawProductIds == {"p1", ""} \cup MalformedIds

\* an item of req.body.products
RawItems ==
    {[half |-> q.half, productId |-> p, quantity |-> q.quantity, given |-> q.given] :
        p \in RawProductIds, q \in RawQuantities}

RawItemLists == UNION {[1 .. n -> RawItems] : n \in 0 .. MaxItems}

\* req.body: `products` may be missing
Bodies ==
    {[products |-> Empty, hasProducts |-> FALSE]}
        \cup [products : RawItemLists, hasProducts : {TRUE}]

\* createOrderSchema: products is a required array of at least one item,
\* productId a non-empty string, quantity a positive number
validate(body) ==
    /\ body.hasProducts
    /\ Len(body.products) >= 1
    /\ \A i \in DOMAIN body.products :
          LET it == body.products[i]
          IN it.productId # "" /\ it.given /\ Halves(it.quantity, it.half) > 0

\* the check OrderController.placeOrder makes of one item; "" when it passes
CheckItem(it) ==
    IF it.productId = "" \/ ~it.given \/ Halves(it.quantity, it.half) = 0
    THEN "Each product must have productId and quantity"
    ELSE IF Halves(it.quantity, it.half) < 2
    THEN "Quantity must be a number greater than 0"
    ELSE ""

\* the checks OrderController.placeOrder makes of req.body; "" when it passes
CheckBody(body) ==
    IF ~body.hasProducts THEN "Products array is required"
    ELSE IF Len(body.products) = 0 THEN "Order must contain at least one product"
    ELSE LET bad == {i \in DOMAIN body.products : CheckItem(body.products[i]) # ""}
         IN IF bad = {} THEN ""
            ELSE CheckItem(body.products[CHOOSE i \in bad : \A j \in bad : i <= j])

\* a request reaches the server
Receive(c, Requests) ==
    /\ pc[c] = "idle"
    /\ \E r \in Requests : req' = [req EXCEPT ![c] = r]
    /\ pc' = [pc EXCEPT ![c] = "received"]
    /\ UNCHANGED <<products, orders, session, idx, item, product, orderProducts,
                   resp, reserved, attempts>>

\* POST /orders: authenticate, validate, OrderController.placeOrder, and the
\* service up to its first await inside the loop
PostOrders(c) ==
    /\ pc[c] = "received"
    /\ LET auth == authenticate(req[c].token)
           body == req[c].body
       IN IF ~auth.ok
          THEN /\ Return(c, session[c], Response(UNAUTHORIZED, auth.message))
               /\ UNCHANGED <<products, orders, attempts>>
          ELSE IF ~validate(body)
          THEN /\ Return(c, session[c], Response(BAD_REQUEST, "Validation failed"))
               /\ UNCHANGED <<products, orders, attempts>>
          ELSE IF auth.user.userId = ""
          THEN /\ Return(c, session[c], Response(UNAUTHORIZED, "Unauthorized"))
               /\ UNCHANGED <<products, orders, attempts>>
          ELSE IF CheckBody(body) # ""
          THEN /\ Return(c, session[c], Response(BAD_REQUEST, CheckBody(body)))
               /\ UNCHANGED <<products, orders, attempts>>
          ELSE PlaceOrderEntry(c,
                   {[length |-> Len(body.products), token |-> req[c].token,
                     body |-> body]})

\* the body ErrorResponse.send gives a rejected lookup
Rejected(code, text) == [statusCode |-> code, message |-> text, success |-> FALSE]

\* GET /orders/:id: authenticate, then OrderController.getOrderById
GetOrder(r) ==
    /\ pc[r] = "received"
    /\ req[r].op = "getOrderById"
    /\ pc' = [pc EXCEPT ![r] = "done"]
    /\ LET auth == authenticate(req[r].token)
       IN resp' = [resp EXCEPT ![r] =
              IF ~auth.ok THEN Rejected(UNAUTHORIZED, auth.message)
              ELSE IF auth.user.userId = "" THEN Rejected(UNAUTHORIZED, "Unauthorized")
              ELSE OrderByIdResponse(auth.user, req[r].orderId)]
    /\ UNCHANGED <<products, orders, session, req, idx, item, product, orderProducts,
                   reserved, attempts>>

\* GET /orders: authenticate, then OrderController.getOrderHistory with its
\* default page and limit
GetOrders(r) ==
    /\ pc[r] = "received"
    /\ req[r].op = "getOrderHistory"
    /\ pc' = [pc EXCEPT ![r] = "done"]
    /\ LET auth == authenticate(req[r].token)
       IN resp' = [resp EXCEPT ![r] =
              IF ~auth.ok THEN Rejected(UNAUTHORIZED, auth.message)
              ELSE IF auth.user.userId = "" THEN Rejected(UNAUTHORIZED, "Unauthorized")
              ELSE OrderHistoryResponse(auth.user, req[r].query, 1, DefaultLimit)]
    /\ UNCHANGED <<products, orders, session, req, idx, item, product, orderProducts,
                   reserved, attempts>>

\* a loop that takes the submitted list from its end
SubmittedItemFromEnd(c) ==
    IF pc[c] = "find"
    THEN LET it == req[c].body.products[req[c].length + 1 - idx[c]]
         IN {[half |-> it.half, productId |-> it.productId, quantity |-> it.quantity]}
    ELSE {}

\* the item of the submitted list the loop has reached, as the service sees it
SubmittedItem(c) ==
    IF pc[c] = "find"
    THEN LET it == req[c].body.products[idx[c]]
         IN {[half |-> it.half, productId |-> it.productId, quantity |-> it.quantity]}
    ELSE {}

----------------------------------------------------------------------------

Init ==
    /\ products = InitProducts
    /\ orders = Empty
    /\ session = [c \in Calls |-> NoSession]
    /\ pc = [c \in Calls |-> "idle"]
    /\ req = [c \in Calls |-> Empty]
    /\ idx = [c \in Callers |-> 0]
    /\ item = [c \in Callers |-> NoItem]
    /\ product = [c \in Calls |-> NoDoc]
    /\ orderProducts = [c \in Callers |-> Empty]
    /\ resp = [c \in Calls |-> NoResp]
    /\ reserved = [c \in Callers |-> 0]
    /\ attempts = [c \in Calls |-> 0]

Next ==
    \/ \E c \in Callers : PlaceOrder(c, Lengths)
    \/ \E c \in Callers : FindProduct(c, Items, BOOLEAN)
    \/ \E c \in Callers : UpdateStock(c, BOOLEAN)
    \/ \E c \in Callers : CreateOrder(c, BOOLEAN)
    \/ \E c \in Callers : CommitOrder(c, CommitOutcomes)

Spec == Init /\ [][Next]_vars

\* Node runs every continuation of a call whose awaited operation has
\* settled, and the store answers every operation: a call that has started
\* keeps taking its next step
SpecLive ==
    /\ Init /\ [][Next]_vars
    /\ \A c \in Callers :
          WF_vars(\/ FindProduct(c, Items, BOOLEAN)
                  \/ UpdateStock(c, BOOLEAN)
                  \/ CreateOrder(c, BOOLEAN)
                  \/ CommitOrder(c, CommitOutcomes))

----------------------------------------------------------------------------
(* Orders placed while an administrator edits a product: c1 orders up to   *)
(* MaxItems items, c2 one item.                                            *)

NextEdit ==
    \/ PlaceOrder("c1", Lengths) \/ PlaceOrder("c2", {1})
    \/ \E c \in Callers : FindProduct(c, Items, BOOLEAN)
    \/ \E c \in Callers : UpdateStock(c, BOOLEAN)
    \/ \E c \in Callers : CreateOrder(c, BOOLEAN)
    \/ \E c \in Callers : CommitOrder(c, CommitOutcomes)
    \/ \E a \in Admins : UpdateProduct(a)
    \/ \E a \in Admins : FindExisting(a, BOOLEAN)
    \/ \E a \in Admins : UpdateDocument(a, BOOLEAN)
    \/ \E a \in Admins : RewriteOrders(a, BOOLEAN)
    \/ \E a \in Admins : CommitUpdate(a, CommitOutcomes)

SpecEdit == Init /\ [][NextEdit]_vars

----------------------------------------------------------------------------
(* Two orders for one unit of the last item of a product, in flight         *)
(* together, with no failure of the store or the driver.                    *)

RacedProduct == "p2"

InitRace ==
    /\ \E n \in 0 .. MaxStock :
          products = [InitProducts EXCEPT !["p1"].stock = n, ![RacedProduct].stock = 1]
    /\ orders = Empty
    /\ session = [c \in Calls |-> NoSession]
    /\ pc = [c \in Calls |-> "idle"]
    /\ req = [c \in Calls |-> Empty]
    /\ idx = [c \in Callers |-> 0]
    /\ item = [c \in Callers |-> NoItem]
    /\ product = [c \in Calls |-> NoDoc]
    /\ orderProducts = [c \in Callers |-> Empty]
    /\ resp = [c \in Calls |-> NoResp]
    /\ reserved = [c \in Callers |-> 0]
    /\ attempts = [c \in Calls |-> 0]

RaceItems == {[half |-> FALSE, productId |-> RacedProduct, quantity |-> 1]}

NextRace ==
    \/ \E c \in Callers : PlaceOrder(c, {1})
    \/ \E c \in Callers : FindProduct(c, RaceItems, {FALSE})
    \/ \E c \in Callers : UpdateStock(c, {FALSE})
    \/ \E c \in Callers : CreateOrder(c, {FALSE})
    \/ \E c \in Callers : CommitOrder(c, {"ok"})

SpecRace == InitRace /\ [][NextRace]_vars

----------------------------------------------------------------------------
(* Lookups over a store that already holds orders of several users.        *)

LookupOrderIds == {"o1", "o2", "o3"}

\* an order as placeOrder creates it and updateOrderStatus may advance it
StoredOrder(userId, status) ==
    PreSave([products |-> <<OrderProduct([half |-> FALSE, productId |-> "p1", quantity |-> 1],
                                         InitProducts["p1"])>>,
             status |-> status,
             ver |-> 0, totalPrice |-> 0, userId |-> userId])

StoredOrders == {StoredOrder(u, st) : u \in {"u1", "u2"}, st \in {"shipped", "pending"}}

InitLookup ==
    /\ products = InitProducts
    /\ \E ids \in SUBSET LookupOrderIds : orders \in [ids -> StoredOrders]
    /\ session = [c \in Calls |-> NoSession]
    /\ pc = [c \in Calls |-> "idle"]
    /\ req = [c \in Calls |-> Empty]
    /\ idx = [c \in Callers |-> 0]
    /\ item = [c \in Callers |-> NoItem]
    /\ product = [c \in Calls |-> NoDoc]
    /\ orderProducts = [c \in Callers |-> Empty]
    /\ resp = [c \in Calls |-> NoResp]
    /\ reserved = [c \in Callers |-> 0]
    /\ attempts = [c \in Calls |-> 0]

NextLookup ==
    \/ \E r \in Readers :
          GetOrderById(r, LookupOrderIds \cup {MissingOrderId} \cup MalformedIds)
    \/ \E r \in Readers : GetOrderHistory(r)

SpecLookup == InitLookup /\ [][NextLookup]_vars

----------------------------------------------------------------------------
(* One client posting any request body, with no failure of the store or    *)
(* the driver.                                                              *)

PostRequests(c) ==
    [token : {[user |-> [userId |-> UserOf[c], role |-> "user"], kind |-> "valid"]},
     body : Bodies]

NextInput ==
    \/ Receive("c1", PostRequests("c1"))
    \/ PostOrders("c1")
    \/ FindProduct("c1", SubmittedItem("c1"), {FALSE})
    \/ UpdateStock("c1", {FALSE})
    \/ CreateOrder("c1", {FALSE})
    \/ CommitOrder("c1", {"ok"})

SpecInput == Init /\ [][NextInput]_vars

----------------------------------------------------------------------------
(* Requests with and without a valid identity on the three routes, while   *)
(* orders are being placed; no failure of the store or the driver.          *)

\* one unit of product p1
PlainBody ==
    [products |-> <<[half |-> FALSE, productId |-> "p1", quantity |-> 1,
                     given |-> TRUE]>>,
     hasProducts |-> TRUE]

AuthPostRequests(c) ==
    [token : Tokens({[userId |-> UserOf[c], role |-> "user"]}), body : {PlainBody}]

AuthGetRequests ==
    LET tokens == Tokens({[userId |-> "u1", role |-> "user"]})
    IN [orderId : Callers \cup {MissingOrderId}, op : {"getOrderById"}, token : tokens]
           \cup [op : {"getOrderHistory"}, query : {Empty}, token : tokens]

NextAuth ==
    \/ \E c \in Callers : Receive(c, AuthPostRequests(c))
    \/ \E c \in Callers : PostOrders(c)
    \/ \E c \in Callers : FindProduct(c, SubmittedItem(c), {FALSE})
    \/ \E c \in Callers : UpdateStock(c, {FALSE})
    \/ \E c \in Callers : CreateOrder(c, {FALSE})
    \/ \E c \in Callers : CommitOrder(c, {"ok"})
    \/ \E r \in Readers : Receive(r, AuthGetRequests)
    \/ \E r \in Readers : GetOrder(r)
    \/ \E r \in Readers : GetOrders(r)

SpecAuth == Init /\ [][NextAuth]_vars

----------------------------------------------------------------------------
(* Calls that do not overlap: c1 posts an order of up to MaxItems items,   *)
(* and when it has been answered c2 posts an order of one item.  No        *)
(* failure of the store or the driver; product p1 may carry any name and   *)
(* any stock up to MaxStock.                                                *)

InitSeq ==
    /\ \E n \in 0 .. MaxStock, name \in {InitProducts["p1"].name, OddName} :
          products = [InitProducts EXCEPT !["p1"].stock = n, !["p1"].name = name]
    /\ orders = Empty
    /\ session = [c \in Calls |-> NoSession]
    /\ pc = [c \in Calls |-> "idle"]
    /\ req = [c \in Calls |-> Empty]
    /\ idx = [c \in Callers |-> 0]
    /\ item = [c \in Callers |-> NoItem]
    /\ product = [c \in Calls |-> NoDoc]
    /\ orderProducts = [c \in Callers |-> Empty]
    /\ resp = [c \in Calls |-> NoResp]
    /\ reserved = [c \in Callers |-> 0]
    /\ attempts = [c \in Calls |-> 0]

\* well-formed item lists of the lengths Lens
SeqRequests(c, Lens) ==
    [token : {[user |-> [userId |-> UserOf[c], role |-> "user"], kind |-> "valid"]},
     body : [products : UNION {[1 .. n -> [half : {FALSE}, productId : ProductIds,
                                           quantity : 1 .. MaxQty, given : {TRUE}]] :
                               n \in Lens},
             hasProducts : {TRUE}]]

NextSeq ==
    \/ Receive("c1", SeqRequests("c1", 1 .. MaxItems))
    \/ pc["c1"] = "done" /\ Receive("c2", SeqRequests("c2", {1}))
    \/ \E c \in Callers : PostOrders(c)
    \/ \E c \in Callers : FindProduct(c, SubmittedItem(c), {FALSE})
    \/ \E c \in Callers : UpdateStock(c, {FALSE})
    \/ \E c \in Callers : CreateOrder(c, {FALSE})
    \/ \E c \in Callers : CommitOrder(c, {"ok"})

SpecSeq == InitSeq /\ [][NextSeq]_vars

----------------------------------------------------------------------------
(* An order of c1 while an administrator edits a product and the order's   *)
(* status is advanced; no failure of the driver at commit.                  *)

StatusOrderIds == {"c1", MissingOrderId} \cup MalformedIds

NextStatus ==
    \/ PlaceOrder("c1", Lengths \ {0})
    \/ FindProduct("c1", Items, {FALSE})
    \/ UpdateStock("c1", {FALSE})
    \/ CreateOrder("c1", {FALSE})
    \/ CommitOrder("c1", {"ok"})
    \/ \E a \in Admins : UpdateProduct(a)
    \/ \E a \in Admins : FindExisting(a, {FALSE})
    \/ \E a \in Admins : UpdateDocument(a, {FALSE})
    \/ \E a \in Admins : RewriteOrders(a, BOOLEAN)
    \/ \E a \in Admins : CommitUpdate(a, {"ok"})
    \/ \E r \in Readers :
          UpdateOrderStatus(r, StatusOrderIds, ValidStatuses \ {"pending"}, BOOLEAN)

SpecStatus == Init /\ [][NextStatus]_vars

----------------------------------------------------------------------------
(* Orders of one item placed while an administrator deletes a product; no   *)
(* failure of the store or the driver in placeOrder.                        *)

NextDelete ==
    \/ \E c \in Callers : PlaceOrder(c, {1})
    \/ \E c \in Callers : FindProduct(c, Items, {FALSE})
    \/ \E c \in Callers : UpdateStock(c, {FALSE})
    \/ \E c \in Callers : CreateOrder(c, {FALSE})
    \/ \E c \in Callers : CommitOrder(c, {"ok"})
    \/ \E a \in Admins : DeleteProduct(a, ProductIds)
    \/ \E a \in Admins : FindToDelete(a, {FALSE})
    \/ \E a \in Admins : CountOrders(a, BOOLEAN)
    \/ \E a \in Admins : SoftDelete(a, BOOLEAN)
    \/ \E a \in Admins : HardDelete(a, BOOLEAN)

SpecDelete == Init /\ [][NextDelete]_vars

----------------------------------------------------------------------------
(* Two updateStock calls in flight together.                                *)

NextStock ==
    \/ \E c \in Callers : ReadStock(c, StockRequests, BOOLEAN)
    \/ \E c \in Callers : WriteStock(c, BOOLEAN)

SpecStock == Init /\ [][NextStock]_vars

----------------------------------------------------------------------------
(* Properties *)

Failed(c) == pc[c] = "done" /\ resp[c].statusCode # CREATED

\* a step in which some call runs commitTransaction
CommitStep == \E x \in Calls : pc[x] = "commit" /\ pc'[x] = "done"

\* C1: atomicity of placeOrder.  Only the step in which a transaction commits
\* changes the committed products or orders, so a call that fails at an item,
\* after stock was reserved for earlier items, has changed no stock by the
\* time it returns; and a call that failed at an item has no order document
\* in the store.
C1_FailedOrderChangesNothing ==
    [][ /\ ~CommitStep => (products' = products /\ orders' = orders)
        /\ \A c \in Callers :
              (pc[c] = "find" /\ pc'[c] = "done") => c \notin DOMAIN orders' ]_vars

\* a call that failed after reserving stock for an earlier item, with every
\* stock as it was and no order in the store
C1_Witness ==
    \E c \in Callers :
        /\ Failed(c)
        /\ reserved[c] >= 1
        /\ resp[c].statusCode \in {BAD_REQUEST, NOT_FOUND}
        /\ products = InitProducts
        /\ orders = Empty

\* C2: stock is never negative in the committed state, whatever the
\* interleaving of order placements and product edits.
C2_StockNeverNegative == \A p \in DOMAIN products : products[p].stock >= 0

\* a product sold out by a committed order while another call was refused
\* for insufficient stock
C2_Witness ==
    /\ \E p \in DOMAIN products : products[p].stock = 0 /\ InitProducts[p].stock > 0
    /\ \E c \in Callers : c \in DOMAIN orders
    /\ \E c \in Callers :
          Failed(c) /\ resp[c].message = "Insufficient stock for product "

RECURSIVE QuantityIn(_, _)
\* the units of product p on the lines of an order
QuantityIn(lines, p) ==
    IF lines = Empty THEN 0
    ELSE (IF lines[1].productId = p THEN lines[1].quantity ELSE 0)
         + QuantityIn(Tail(lines), p)

RECURSIVE Sold(_, _)
\* the units of product p on the committed orders os
Sold(os, p) ==
    IF os = {} THEN 0
    ELSE LET o == CHOOSE x \in os : TRUE
         IN QuantityIn(orders[o].products, p) + Sold(os \ {o}, p)

\* C3: no lost update.  The stock of every product is its initial stock less
\* the quantities on the committed line items that name it: every committed
\* line was decremented exactly once.
C3_NoLostUpdate ==
    \A p \in DOMAIN products :
        products[p].stock = InitProducts[p].stock - Sold(DOMAIN orders, p)

\* both calls committed an order for the same product
C3_Witness ==
    /\ \A c \in Callers : c \in DOMAIN orders
    /\ \E p \in ExistingProducts :
          \A c \in Callers : QuantityIn(orders[c].products, p) >= 1

\* C4: with one unit in stock and two orders for one unit in flight together,
\* once both have returned one got 201, the other 400 for insufficient stock,
\* and the stock is 0.
C4_OneCreatedOneInsufficient ==
    (\A c \in Callers : pc[c] = "done") =>
        /\ products[RacedProduct].stock = 0
        /\ \E w, l \in Callers :
              /\ w # l
              /\ resp[w].statusCode = CREATED
              /\ resp[l].statusCode = BAD_REQUEST
              /\ resp[l].message = "Insufficient stock for product "

\* C5: the total of every committed order is the sum of price times quantity
\* over its lines, rounded to the nearest cent, after an order is placed and
\* after a product edit rewrote its lines; an order with a priced line never
\* carries the placeholder 0.
C5_TotalMatchesLines ==
    \A o \in DOMAIN orders :
        LET t == SumLines(orders[o].products)
            total == orders[o].totalPrice
        IN /\ total % 10 = 0
           /\ total - 5 <= t
           /\ t < total + 5
           /\ t > 0 => total > 0

\* a committed order whose lines a product edit has repriced
C5_Witness ==
    \E o \in DOMAIN orders :
        /\ orders[o].ver >= 1
        /\ \E i \in DOMAIN orders[o].products : orders[o].products[i].price = NewPrice
        /\ orders[o].totalPrice > 0

\* C6: price authority.  The line item pushed for a request item carries the
\* name and the price of the product as the transaction reads it, and the id
\* and quantity of the request item, whatever `price` the client sent; the
\* order written and committed carries exactly those line items.
C6_PriceFromStore ==
    [][ \A c \in Callers :
          /\ Len(orderProducts'[c]) = Len(orderProducts[c]) + 1 =>
                LET l == orderProducts'[c][Len(orderProducts'[c])]
                    d == ViewP(session[c])[item[c].productId]
                IN /\ l.name = d.name
                   /\ l.price = d.price
                   /\ l.productId = item[c].productId
                   /\ l.quantity = item[c].quantity
          /\ (pc[c] = "create" /\ pc'[c] = "commit") =>
                session'[c].wO[c].products = orderProducts[c]
          /\ (pc[c] = "commit" /\ c \in DOMAIN orders') =>
                orders'[c].products = session[c].wO[c].products ]_vars

\* the order of the client that forges prices, written with the store's price
C6_Witness ==
    /\ pc["c1"] = "commit"
    /\ item["c1"].price = ForgedPrice
    /\ \A i \in DOMAIN session["c1"].wO["c1"].products :
          LET l == session["c1"].wO["c1"].products[i]
          IN l.price = products[l.productId].price /\ l.price # ForgedPrice

\* C9: a placeOrder call that has returned has ended its session.
C9_SessionEnded == \A c \in Callers : pc[c] = "done" => session[c].ended

\* C10: a call answers with the failure of a conflicting stock write only
\* after it has retried the whole transaction.
C10_ConflictRetried ==
    \A c \in Callers :
        (pc[c] = "done" /\ resp[c].message = "Failed to update stock for product: ")
            => attempts[c] >= 2

Asked(r, op) == "op" \in DOMAIN req[r] /\ req[r].op = op

StatusAsked(query) ==
    IF "status" \in DOMAIN query /\ toLowerCase(query["status"]) \in ValidStatuses
    THEN {toLowerCase(query["status"])}
    ELSE {"shipped", "pending"}

C11_ResponseMatchesOutcome ==
    [][ \A c \in Callers :
          (pc[c] # "done" /\ pc'[c] = "done")
              => IF resp'[c].statusCode = CREATED
                 THEN c \in DOMAIN orders' /\ c \notin DOMAIN orders
                 ELSE products' = products /\ orders' = orders ]_vars

\* C17: every order created by placeOrder has status pending at the moment
\* it becomes visible in the store, whatever the request body contained.
C17_CreatedPending ==
    [][ \A o \in DOMAIN orders' \ DOMAIN orders : orders'[o].status = "pending" ]_vars

\* a committed order of the client that sent a status of its own
C17_Witness ==
    \E c \in Callers :
        /\ ClientStatus[c] = ForgedStatus
        /\ c \in DOMAIN orders
        /\ orders[c].status = "pending"

\* C20: no partial state is observable.  A step changes the committed
\* products or orders only by making one call's order visible together with
\* every stock decrement of its lines: each stock falls by exactly the units
\* of that product on the new order and nothing else changes.  A call that
\* aborts therefore never shows any effect.
C20_AllOrNothing ==
    [][ \/ products' = products /\ orders' = orders
        \/ \E c \in Callers :
              /\ c \notin DOMAIN orders
              /\ DOMAIN orders' = DOMAIN orders \cup {c}
              /\ \A o \in DOMAIN orders : orders'[o] = orders[o]
              /\ \A p \in DOMAIN products :
                    products'[p] =
                        [products[p] EXCEPT
                            !.stock = @ - QuantityIn(orders'[c].products, p),
                            !.ver = IF QuantityIn(orders'[c].products, p) > 0
                                    THEN @ + 1 ELSE @] ]_vars

\* an order of two lines visible with both decrements, after another call
\* that had reserved stock was aborted
C20_Witness ==
    \E c, d \in Callers :
        /\ c \in DOMAIN orders
        /\ Len(orders[c].products) >= 2
        /\ Failed(d) /\ reserved[d] >= 1 /\ d \notin DOMAIN orders

\* the request body is one the specification calls invalid input: no item
\* list or an empty one, a quantity that is not a positive integer, or a
\* productId that is missing or malformed
InvalidInput(body) ==
    \/ ~body.hasProducts
    \/ Len(body.products) = 0
    \/ \E i \in DOMAIN body.products :
          LET it == body.products[i]
          IN \/ ~it.given \/ it.half \/ it.quantity < 1
             \/ it.productId = "" \/ ~ValidObjectId(it.productId)

\* the call of client c answers in this step
Answers(c) == pc[c] \notin {"done", "idle"} /\ pc'[c] = "done"

\* C12: an authenticated request whose body is invalid input is answered 400,
\* and the step that answers it changes no stock and creates no order.
C12_InvalidInputRejected ==
    [][ \A c \in Callers :
          (Answers(c) /\ "body" \in DOMAIN req[c] /\ authenticate(req[c].token).ok
             /\ InvalidInput(req[c].body))
              => /\ resp'[c].statusCode = BAD_REQUEST
                 /\ products' = products /\ orders' = orders ]_vars

\* the messages of the rejections the specification calls invalid input
InvalidInputMessages ==
    {"Invalid product ID: ", "Product quantity must be at least 1",
     "Invalid ID format",
     "Order must contain at least one product",
     "Each product must have productId and quantity",
     "Quantity must be a number greater than 0",
     "Products array is required", "Validation failed"}

\* C14: a request rejected as invalid input has had no session or transaction
\* opened for it at any point before the rejection.
C14_RejectedBeforeSession ==
    [][ \A c \in Callers :
          (Answers(c) /\ resp'[c].statusCode = BAD_REQUEST
             /\ resp'[c].message \in InvalidInputMessages)
              => attempts'[c] = 0 /\ session'[c] = NoSession ]_vars

ReadFailed(c) ==
    /\ pc[c] = "find" /\ pc'[c] = "done"
    /\ LET it == item'[c]
           view == ViewP(WithSnapshot(session[c]))
       IN /\ ValidObjectId(it.productId) /\ Halves(it.quantity, it.half) >= 2
          /\ it.productId \in DOMAIN view
          /\ ~InsufficientStock(view[it.productId], it)

\* call c fails in this step because a store operation failed: the product
\* read, the stock write, the order insert or the commit
InfrastructureFailure(c) ==
    \/ ReadFailed(c)
    \/ /\ pc[c] \in {"update", "create", "commit"} /\ pc'[c] = "done"
       /\ resp'[c].statusCode # CREATED

\* C15: a failure of a store operation inside placeOrder is answered with a
\* 500-class response, never with 400 or 404.
C15_InfrastructureIs500 ==
    [][ \A c \in Callers :
          InfrastructureFailure(c) => resp'[c].statusCode >= INTERNAL_SERVER_ERROR ]_vars

\* the loop of call c stops in this step, at the item kept in item'
StopsAtItem(c) == pc[c] = "find" /\ pc'[c] = "done"

\* C13: placeOrder answers 404 when a well-formed productId matches no
\* product, and 400 with the insufficient-stock message when the product
\* exists and its stock is less than the quantity asked.
C13_NotFoundOrInsufficient ==
    [][ \A c \in Callers :
          StopsAtItem(c) =>
              LET it == item'[c]
                  view == ViewP(WithSnapshot(session[c]))
              IN /\ (ValidObjectId(it.productId) /\ it.productId \notin DOMAIN view)
                        => resp'[c].statusCode = NOT_FOUND
                 /\ (it.productId \in DOMAIN view
                        /\ InsufficientStock(view[it.productId], it))
                        => resp'[c] = Response(BAD_REQUEST,
                                               "Insufficient stock for product ") ]_vars

\* C16: calls that do not overlap, each for one item of quantity q of a
\* product with price p and committed stock s.  If q <= s the call returns
\* 201 with totalPrice p * q and leaves the stock at s - q; otherwise it
\* returns 400 with the insufficient-stock message and leaves the stock as it
\* is.  The second call therefore meets the stock the first one left.
C16_SequentialOrders ==
    [][ \A c \in Callers :
          (Answers(c) /\ pc[c] # "received" /\ req[c].length = 1) =>
              LET it == IF pc[c] = "find" THEN item'[c] ELSE item[c]
                  p == it.productId
              IN p \in DOMAIN products =>
                    IF it.quantity <= products[p].stock
                    THEN /\ resp'[c].statusCode = CREATED
                         /\ orders'[c].totalPrice = products[p].price * it.quantity
                         /\ products'[p].stock = products[p].stock - it.quantity
                    ELSE /\ resp'[c] = Response(BAD_REQUEST,
                                                "Insufficient stock for product ")
                         /\ products' = products ]_vars

C29_StatusIgnoresName ==
    [][ \A c \in Callers :
          (pc[c] \in {"find", "update", "create", "commit"} /\ pc'[c] = "done"
             /\ resp'[c].statusCode # CREATED)
              => resp'[c].statusCode = StatusFor(Msg(resp'[c].message, "")) ]_vars

\* C24: a request that names one product in several line items.  Each
\* reservation sees the decrements of the earlier ones: the call returns 201
\* exactly when the quantities together are at most the stock, and the stock
\* then falls by their sum; otherwise it fails with the insufficient-stock
\* error, no order is created and the stock is unchanged.
C24_SameProductTwice ==
    [][ \A c \in Callers :
          (pc[c] \in {"find", "update", "create", "commit"} /\ pc'[c] = "done"
             /\ req[c].length >= 2) =>
              LET list == req[c].body.products
                  p == list[1].productId
                  total == QuantityIn(list, p)
              IN (p \in DOMAIN products
                    /\ \A i \in DOMAIN list : list[i].productId = p) =>
                    IF total <= products[p].stock
                    THEN /\ resp'[c].statusCode = CREATED
                         /\ products'[p].stock = products[p].stock - total
                         /\ Len(orders'[c].products) = Len(list)
                    ELSE /\ resp'[c].message = "Insufficient stock for product "
                         /\ WordsOfArg(products[p].name) = {} =>
                                resp'[c].statusCode = BAD_REQUEST
                         /\ products' = products
                         /\ c \notin DOMAIN orders' ]_vars

\* a committed order with two lines for one product that took the whole
\* stock, one unit each
C24_Witness ==
    \E c \in Callers, p \in DOMAIN products :
        /\ c \in DOMAIN orders
        /\ Len(orders[c].products) >= 2
        /\ \A i \in DOMAIN orders[c].products : orders[c].products[i].productId = p
        /\ products[p].stock = 0
        /\ pc[c] = "done" /\ resp[c].statusCode = CREATED

\* C25: every session opened by placeOrder or updateProduct gets one terminal
\* action and then endSession, and no exception of the driver leaves the
\* operation: when the operation has returned, the transaction is committed
\* or aborted, the session is ended, and the response is the operation's own.
C25_SessionClosedOnce ==
    \A x \in Callers \cup Admins :
        (pc[x] = "done" /\ attempts[x] >= 1) =>
            /\ session[x].txn \in {"aborted", "committed"}
            /\ session[x].ended
            /\ resp[x].message # "uncaught driver error"

\* the lines of order o that reference product p
LinesOf(os, o, p) == {i \in DOMAIN os[o].products : os[o].products[i].productId = p}

\* C21: a step of updateProduct either leaves products and orders as they
\* were, or installs the product's new name/price together with the rewrite
\* of every order that references it: each such line carries the product's
\* new name and price, the order's totalPrice is the rounded sum of its
\* lines, and every other order is untouched.  A 200 response is only given
\* with the change installed.
C21_UpdateRewritesOrders ==
    [][ \A a \in Admins :
          (pc[a] \notin {"done", "idle"} /\ pc'[a] # pc[a]) =>
            LET p == req[a].productId
                data == req[a].data
            IN /\ IF products' # products
                  THEN /\ p \in DOMAIN products'
                       /\ \A f \in DOMAIN data : products'[p][f] = data[f]
                       /\ DOMAIN orders' = DOMAIN orders
                       /\ \A o \in DOMAIN orders' :
                            IF LinesOf(orders', o, p) = {}
                            THEN orders'[o] = orders[o]
                            ELSE /\ \A i \in LinesOf(orders', o, p) :
                                      /\ orders'[o].products[i].name = products'[p].name
                                      /\ orders'[o].products[i].price = products'[p].price
                                 /\ orders'[o].totalPrice
                                      = Round2(SumLines(orders'[o].products))
                  ELSE orders' = orders
               /\ resp'[a].statusCode = 200 => products' # products ]_vars

\* an order placed before the update carries the new name and price after it
C21_Witness ==
    \E a \in Admins, o \in DOMAIN orders :
        /\ pc[a] = "done" /\ resp[a].statusCode = 200
        /\ orders[o].ver >= 1
        /\ \E i \in DOMAIN orders[o].products :
              LET l == orders[o].products[i]
              IN /\ l.name = NewName /\ l.price = NewPrice
                 /\ products[l.productId].name = NewName
                 /\ products[l.productId].price = NewPrice

\* C22: no step changes the quantity or the productId of a line of a
\* committed order, nor the number of its lines: the rewrite of updateProduct
\* changes only name, price and totalPrice, and updateOrderStatus changes only
\* the status.
C22_LinesKeepProductAndQuantity ==
    [][ \A o \in DOMAIN orders :
          /\ o \in DOMAIN orders'
          /\ orders'[o].userId = orders[o].userId
          /\ DOMAIN orders'[o].products = DOMAIN orders[o].products
          /\ \A i \in DOMAIN orders[o].products :
                /\ orders'[o].products[i].productId = orders[o].products[i].productId
                /\ orders'[o].products[i].quantity = orders[o].products[i].quantity
                /\ orders'[o].products[i].half = orders[o].products[i].half
          /\ (\E a \in Admins : pc'[a] # pc[a]) => orders'[o].status = orders[o].status
          /\ (\E r \in Readers : pc'[r] # pc[r]) =>
                /\ orders'[o].products = orders[o].products
                /\ orders'[o].totalPrice = orders[o].totalPrice ]_vars

\* an order of two units whose lines were rewritten and whose status was
\* advanced
C22_Witness ==
    \E o \in DOMAIN orders :
        /\ orders[o].ver >= 2
        /\ orders[o].status = "shipped"
        /\ \E i \in DOMAIN orders[o].products :
              /\ orders[o].products[i].price = NewPrice
              /\ orders[o].products[i].quantity = 2

\* C26: whenever no placeOrder and no updateProduct is in flight, every line
\* of every committed order carries the current name and price of the
\* product it references, however the calls were interleaved.
C26_LinesCarryCurrentProduct ==
    (\A x \in Callers \cup Admins : pc[x] \in {"done", "idle"}) =>
        \A o \in DOMAIN orders :
            \A i \in DOMAIN orders[o].products :
                LET l == orders[o].products[i]
                IN /\ l.productId \in DOMAIN products
                   /\ l.name = products[l.productId].name
                   /\ l.price = products[l.productId].price

\* an order that was being placed while the product was edited: it is
\* committed, was never rewritten, and carries the new price
C26_Witness ==
    /\ \A x \in Callers \cup Admins : pc[x] = "done"
    /\ \E a \in Admins : resp[a].statusCode = 200
    /\ \E o \in DOMAIN orders :
          /\ orders[o].ver = 0
          /\ \E i \in DOMAIN orders[o].products :
                /\ orders[o].products[i].price = NewPrice
                /\ products[orders[o].products[i].productId].price = NewPrice
    /\ \E o \in DOMAIN orders : orders[o].ver >= 1

\* C27: every line of every committed order references a product document
\* that exists, and a product that some committed order references is never
\* removed from the store.
C27_OrdersReferenceProducts ==
    \A o \in DOMAIN orders :
        \A i \in DOMAIN orders[o].products :
            orders[o].products[i].productId \in DOMAIN products

\* C30: an order is created with a line of a product, or the stock of a
\* product is decremented, only if the product is not soft-deleted at the
\* time.
C30_DeletedNotOrdered ==
    [][ /\ \A c \in Callers :
            (c \notin DOMAIN orders /\ c \in DOMAIN orders') =>
                \A i \in DOMAIN orders'[c].products :
                    LET p == orders'[c].products[i].productId
                    IN p \in DOMAIN products => products[p].status # "deleted"
        /\ \A p \in DOMAIN products \cap DOMAIN products' :
            Halves(products'[p].stock, products'[p].half)
                < Halves(products[p].stock, products[p].half)
              => products[p].status # "deleted" ]_vars

RECURSIVE Taken(_, _)
\* the units the updateStock calls in S have taken from product p: decreases
\* applied less increases applied
Taken(S, p) ==
    IF S = {} THEN 0
    ELSE LET c == CHOOSE x \in S : TRUE
         IN (IF req[c] # Empty /\ "operation" \in DOMAIN req[c]
                /\ req[c].productId = p
             THEN reserved[c] ELSE 0)
            + Taken(S \ {c}, p)

\* C28: under concurrent updateStock calls the stock of a product never goes
\* below zero and always equals the initial stock plus the increases applied
\* minus the decreases applied: no update is lost.
C28_NoLostStockUpdate ==
    \A p \in DOMAIN products :
        /\ products[p].stock >= 0
        /\ products[p].stock = InitProducts[p].stock - Taken(Callers, p)

\* C23: every placeOrder call that has started eventually returns, whatever
\* the other calls do: a write that conflicts with another open transaction
\* fails at once, so no call waits for another.
C23_EveryCallReturns ==
    \A c \in Callers : (pc[c] # "idle") ~> (pc[c] = "done")

\* two calls that met on a product: one committed an order of two products,
\* the other was refused the stock write and returned
C23_Witness ==
    \E c, d \in Callers :
        /\ c # d /\ pc[c] = "done" /\ pc[d] = "done"
        /\ c \in DOMAIN orders
        /\ Len(orders[c].products) = 2
        /\ orders[c].products[1].productId # orders[c].products[2].productId
        /\ resp[d].statusCode = INTERNAL_SERVER_ERROR
        /\ resp[d].message = "Failed to update stock for product: "
        /\ reserved[d] = 1

====
